---- MODULE Spec2Model ----
(***************************************************************************)
(* lerr: the diagnostic builder (Error::new / Error::label) and its        *)
(* renderer (Display::fmt for Error with the nested fn extras), modelled   *)
(* from src/src/lib.rs.                                                    *)
(*                                                                         *)
(* Source text is a sequence of UTF-8 bytes.  Four byte classes are        *)
(* enough to tell byte offsets, char boundaries and display columns apart: *)
(*   "a"  a one-byte, one-column character                                 *)
(*   "n"  the newline byte                                                 *)
(*   "P"  the lead byte of a two-byte, one-column character (such as pi)   *)
(*   "c"  its continuation byte                                            *)
(* Offsets are 0-based as in the code; byte o of the text is source[o+1].  *)
(* A panic (assert!, todo!, ilog10 of 0, a str slice that is out of order  *)
(* or off a char boundary) is the frame state pc = "panic" with its cause  *)
(* in why.                                                                 *)
(***************************************************************************)
EXTENDS Integers, Sequences, FiniteSets, TLC

VARIABLES source, nlw, labels, last, fmt

vars == <<source, nlw, labels, last, fmt>>

\* ---------------------------------------------------------------- bounds

\* longest source text, in bytes
MaxLen == 2

\* most labels a diagnostic holds when label is called once more
MaxLabels == 2

\* ---------------------------------------------------------------- inputs

Bytes == {"a", "n", "P", "c"}

\* well-formed UTF-8: a lead byte is followed by its continuation byte, and
\* a continuation byte only follows a lead byte
ValidText(s) ==
    \A p \in 1..Len(s) :
        /\ s[p] = "P" => (p < Len(s) /\ s[p + 1] = "c")
        /\ s[p] = "c" => (p > 1 /\ s[p - 1] = "P")

Sources == {s \in UNION {[1..n -> Bytes] : n \in 0..MaxLen} : ValidText(s)}

\* label messages: the empty message, and one visible character behind a
\* styling escape sequence ("e"), which occupies no column
Messages == {<< >>, <<"e", "x">>}

\* the spans a caller passes: start <= end, the end up to one past the text
SpansOf(s) == {sp \in (0..Len(s) + 1) \X (0..Len(s) + 1) : sp[1] <= sp[2]}

NoLabel == [start |-> 0, end |-> 0, message |-> <<"none">>]

\* ------------------------------------------------------- text measurement

\* UnicodeWidthStr::width of one byte's share of a character; the width of
\* the newline control character is 0 or 1 depending on the unicode-width
\* release the build resolves, held in nlw
ByteWidth(b) ==
    CASE b = "a" -> 1
      [] b = "P" -> 1
      [] b = "c" -> 0
      [] b = "n" -> nlw

\* str::is_char_boundary
IsBoundary(o) ==
    \/ o = 0
    \/ o = Len(source)
    \/ (o > 0 /\ o < Len(source) /\ source[o + 1] # "c")

\* whether &source[from..to] is a slice the str index accepts (else it panics)
SliceOK(from, to) ==
    /\ from <= to
    /\ to <= Len(source)
    /\ IsBoundary(from)
    /\ IsBoundary(to)

RECURSIVE Width(_, _)
\* UnicodeWidthStr::width(&source[from..to])
Width(from, to) ==
    IF from >= to THEN 0 ELSE ByteWidth(source[from + 1]) + Width(from + 1, to)

RECURSIVE MsgLen(_)
\* the width of the message with its styling stripped (strip_str)
MsgLen(m) ==
    IF m = << >> THEN 0
    ELSE (IF Head(m) = "e" THEN 0 ELSE 1) + MsgLen(Tail(m))

\* ------------------------------------------------------------ Source::spans

RECURSIVE SpansFrom(_)
\* the (start, end) of every line from byte offset pos on: split_inclusive
\* cuts after each newline, the scan keeps the running offset, and the
\* span leaves the trailing newline out
SpansFrom(pos) ==
    IF pos >= Len(source) THEN << >>
    ELSE LET nls == {q \in pos..Len(source) - 1 : source[q + 1] = "n"}
             stop == IF nls = {} THEN Len(source)
                     ELSE CHOOSE q \in nls : \A r \in nls : q <= r
         IN <<[start |-> pos, end |-> stop]>> \o
            (IF nls = {} THEN << >> ELSE SpansFrom(stop + 1))

LineSpans == SpansFrom(0)

\* self.source.0.lines().count()
LineCount == Len(LineSpans)

\* ------------------------------------------------------------ the frame

\* the locals of Display::fmt before it is called.  at is where a panic was
\* raised; drawn, links, written, rows and queue0 are history of what the row
\* loops of the current line did, kept for the properties below
Idle ==
    [pc |-> "build", why |-> "none", at |-> "none",
     line |-> 0, pending |-> << >>, i |-> 0,
     found |-> << >>, position |-> 0, middles |-> << >>, k |-> 0,
     unfinished |-> << >>, epos |-> 0, ei |-> 0,
     out |-> << >>, cur |-> << >>,
     drawn |-> << >>, links |-> << >>, written |-> << >>,
     rows |-> 0, queue0 |-> 0]

\* a panic unwinds out of fmt; the frame is left as it was
Panic(f, cause) == [f EXCEPT !.pc = "panic", !.why = cause, !.at = f.pc]

\* n copies of glyph g (the wrpeat! macro)
Wrpeat(n, g) == [j \in 1..n |-> g]

\* Vec::swap_remove(i), i counted from 0
SwapRemove(s, i) ==
    LET n == Len(s)
    IN [j \in 1..n - 1 |-> IF j = i + 1 THEN s[n] ELSE s[j]]

\* Vec::remove(i), i counted from 0
Remove(s, i) == [j \in 1..Len(s) - 1 |-> IF j <= i THEN s[j] ELSE s[j + 1]]

\* Range::contains
Contains(l, x) == l.start <= x /\ x < l.end

\* the comparator of the sort: by start, then by end
Before(a, b) ==
    \/ a.l.start < b.l.start
    \/ (a.l.start = b.l.start /\ a.l.end < b.l.end)

RECURSIVE Insert(_, _)
Insert(x, s) ==
    IF s = << >> THEN <<x>>
    ELSE IF Before(x, s[Len(s)]) THEN Append(Insert(x, SubSeq(s, 1, Len(s) - 1)), s[Len(s)])
    ELSE Append(s, x)

RECURSIVE InsertionSort(_)
InsertionSort(s) ==
    IF s = << >> THEN << >>
    ELSE Insert(s[Len(s)], InsertionSort(SubSeq(s, 1, Len(s) - 1)))

\* found.sort_unstable_by(..): slices this short are sorted by insertion,
\* which keeps equal keys in their order of arrival
SortFound(s) == InsertionSort(s)

\* the membership test with the line's end left out
OnLineStrict(span, l) == span.end > l.start /\ span.start <= l.start

\* the line membership test of the grouping loop
OnLine(span, l) == span.end >= l.start /\ span.start <= l.start

\* the primary row's test without the separator column
CollidesNoSeparator(l, about, msglen, b) == l.start + about + msglen > b.start

\* the primary row's test: does label l, placed inline, run into b
Collides(l, about, msglen, b) == l.start + about + msglen + 1 > b.start

\* the extension row's test: does l's connector and message run into b
Strikes(l, connection, msglen, b) == l.start + connection + msglen + 2 > b.start

\* ap - 1, saturating at 0
SatPred(ap) == IF ap > 0 THEN ap - 1 ELSE 0

\* the column of the split marker's midpoint glyph, counted from the marker
Middle(about) == (SatPred(about) + 1) \div 2

\* ------------------------------------------------------------ fmt, by step

\* the for loop goes on to the next line, or fmt returns Ok
NextLine(f) ==
    IF f.line + 1 < LineCount
    THEN [f EXCEPT !.pc = "group", !.line = f.line + 1, !.i = 0,
                   !.found = << >>, !.position = 0, !.middles = << >>,
                   !.k = 0, !.unfinished = << >>, !.epos = 0, !.ei = 0,
                   !.drawn = << >>, !.links = << >>,
                   !.rows = 0, !.queue0 = 0]
    ELSE [f EXCEPT !.pc = "done", !.found = << >>]

\* fmt up to the first line: lines.ilog10() panics on a text of no lines
DoBegin(labs) ==
    IF LineCount = 0 THEN Panic([Idle EXCEPT !.pc = "begin"], "ilog")
    ELSE [Idle EXCEPT !.pc = "group",
                      !.pending = [j \in 1..Len(labs) |->
                                     [id |-> j, start |-> labs[j].start,
                                      end |-> labs[j].end,
                                      message |-> labs[j].message]]]

\* one turn of the while loop over the labels not yet placed
DoGroup(f) ==
    LET span == LineSpans[f.line + 1]
        cand == f.pending[f.i + 1]
    IN IF OnLine(span, cand)
       THEN LET g == [f EXCEPT !.pending = SwapRemove(f.pending, f.i)]
                from == cand.start - span.start
                to == cand.end - span.start
            IN IF \E j \in 1..Len(f.found) : Contains(f.found[j].l, cand.start)
               THEN Panic(g, "overlap")
               ELSE IF ~SliceOK(from, to) THEN Panic(g, "slice")
               ELSE [g EXCEPT !.found = Append(f.found,
                        [l |-> cand,
                         msglen |-> MsgLen(cand.message),
                         point |-> Width(from, to)
                                   + (IF cand.end = cand.start THEN 1 ELSE 0)])]
       ELSE [f EXCEPT !.i = f.i + 1]

\* after the while loop: skip a line without labels, else write the header
\* and the row's margin and sort the line's labels
DoGroupEnd(f) ==
    IF f.found = << >> THEN NextLine(f)
    ELSE [f EXCEPT !.pc = "row",
                   !.out = Append(f.out, <<"line", "|">>),
                   !.cur = <<":">>,
                   !.found = SortFound(f.found),
                   !.position = 0, !.middles = << >>, !.k = 0]

\* one label of the primary row
DoRow(f) ==
    LET span == LineSpans[f.line + 1]
        e == f.found[f.k + 1]
        l == e.l
        from == span.start + f.position
    IN IF ~SliceOK(from, l.start) THEN Panic(f, "slice")
       ELSE
       LET padding == Width(from, l.start)
           col == f.position + padding
       IN IF \E j \in f.k + 2..Len(f.found) :
                 Collides(l, e.point, e.msglen, f.found[j].l)
          THEN LET p == SatPred(e.point)
                   middle == Middle(e.point)
                   glyphs == Wrpeat(middle, "-") \o <<".">> \o Wrpeat(p - middle, "-")
               IN [f EXCEPT !.cur = f.cur \o Wrpeat(padding, " ") \o glyphs,
                            !.middles = Append(f.middles,
                                [l |-> l, connection |-> middle, msglen |-> e.msglen]),
                            !.position = col + e.point,
                            !.k = f.k + 1,
                            !.drawn = Append(f.drawn,
                                [id |-> l.id, deferred |-> TRUE, col |-> col,
                                 midcol |-> col + middle, glyphs |-> glyphs])]
          ELSE LET glyphs == Wrpeat(e.point, "^") \o <<" ">> \o l.message
               IN [f EXCEPT !.cur = f.cur \o Wrpeat(padding, " ") \o glyphs,
                            !.position = col + e.point + 1 + e.msglen,
                            !.k = f.k + 1,
                            !.written = Append(f.written, l.id),
                            !.drawn = Append(f.drawn,
                                [id |-> l.id, deferred |-> FALSE, col |-> col,
                                 midcol |-> col, glyphs |-> glyphs])]

\* the row is terminated and extras is called with the deferred labels
DoRowEnd(f) ==
    [f EXCEPT !.pc = "extras",
              !.out = Append(f.out, f.cur), !.cur = << >>,
              !.unfinished = f.middles,
              !.rows = 0, !.queue0 = Len(f.middles)]

\* extras is entered: return on an empty queue (then found.clear() and the
\* next line), else write the margin of a new extension row
DoExtras(f) ==
    IF f.unfinished = << >> THEN NextLine(f)
    ELSE [f EXCEPT !.pc = "extrarow", !.cur = <<":">>, !.epos = 0, !.ei = 0]

\* one turn of the while loop of extras
DoExtraStep(f) ==
    LET span == LineSpans[f.line + 1]
        u == f.unfinished[f.ei + 1]
        l == u.l
        from == span.start + f.epos
        to == l.start + u.connection
    IN IF ~SliceOK(from, to) THEN Panic(f, "slice")
       ELSE
       LET padding == Width(from, to)
           col == f.epos + padding
       IN IF \E j \in f.ei + 2..Len(f.unfinished) :
                 Strikes(l, u.connection, u.msglen, f.unfinished[j].l)
          THEN [f EXCEPT !.cur = f.cur \o Wrpeat(padding, " ") \o <<"|", " ">>,
                         !.epos = col + 2,
                         !.ei = f.ei + 1,
                         !.links = Append(f.links, [id |-> l.id, col |-> col])]
          ELSE [f EXCEPT !.cur = f.cur \o Wrpeat(padding, " ") \o <<"\\", " ">>
                                      \o l.message,
                         !.epos = col + 2 + u.msglen,
                         !.written = Append(f.written, l.id),
                         !.links = Append(f.links, [id |-> l.id, col |-> col]),
                         !.unfinished = Remove(f.unfinished, f.ei)]

\* the extension row is terminated and extras calls itself
DoExtraRowEnd(f) ==
    [f EXCEPT !.pc = "extras",
              !.out = Append(f.out, f.cur), !.cur = << >>,
              !.rows = f.rows + 1]

\* the next step of fmt from frame f
Step(f) ==
    CASE f.pc = "group" ->
            IF f.i < Len(f.pending) THEN DoGroup(f) ELSE DoGroupEnd(f)
      [] f.pc = "row" ->
            IF f.k < Len(f.found) THEN DoRow(f) ELSE DoRowEnd(f)
      [] f.pc = "extras" -> DoExtras(f)
      [] f.pc = "extrarow" ->
            IF f.ei < Len(f.unfinished) THEN DoExtraStep(f) ELSE DoExtraRowEnd(f)
      [] OTHER -> f

RECURSIVE Run(_)
Run(f) == IF f.pc \in {"done", "panic"} THEN f ELSE Run(Step(f))

\* the whole of fmt on a diagnostic holding the labels labs
Render(labs) == Run(DoBegin(labs))

\* ------------------------------------------------------------ the machine

\* Error::new(source)
Init ==
    /\ source \in Sources
    /\ nlw \in {0, 1}
    /\ labels = << >>
    /\ last = NoLabel
    /\ fmt = Idle

\* the assertion off by one: a span ending one past the text passes
InBoundsOffByOne(l) == Len(source) + 1 >= l.end

\* whether the assert! of Error::label passes
InBounds(l) == Len(source) >= l.end

\* Error::label on a diagnostic of fewer than cap labels, the assertion
\* passing: the label is pushed
LabelUpTo(cap) ==
    /\ fmt.pc = "build"
    /\ Len(labels) < cap
    /\ \E sp \in SpansOf(source), m \in Messages :
          LET l == [start |-> sp[1], end |-> sp[2], message |-> m]
          IN /\ InBounds(l)
             /\ labels' = Append(labels, l)
             /\ last' = l
    /\ UNCHANGED <<source, nlw, fmt>>

Label == LabelUpTo(MaxLabels)

\* the same with room for one label more: three labels on a line are the
\* fewest that leave two of them on an extension row
LabelDeep == LabelUpTo(MaxLabels + 1)

\* Error::label with the assertion failing
LabelPanics ==
    /\ fmt.pc = "build"
    /\ Len(labels) < MaxLabels
    /\ \E sp \in SpansOf(source), m \in Messages :
          LET l == [start |-> sp[1], end |-> sp[2], message |-> m]
          IN /\ ~InBounds(l)
             /\ last' = l
    /\ fmt' = Panic(fmt, "bounds")
    /\ UNCHANGED <<source, nlw, labels>>

\* fmt is called
Begin ==
    /\ fmt.pc = "build"
    /\ fmt' = DoBegin(labels)
    /\ UNCHANGED <<source, nlw, labels, last>>

Group ==
    /\ fmt.pc = "group" /\ fmt.i < Len(fmt.pending)
    /\ fmt' = DoGroup(fmt)
    /\ UNCHANGED <<source, nlw, labels, last>>

GroupEnd ==
    /\ fmt.pc = "group" /\ fmt.i >= Len(fmt.pending)
    /\ fmt' = DoGroupEnd(fmt)
    /\ UNCHANGED <<source, nlw, labels, last>>

Row ==
    /\ fmt.pc = "row" /\ fmt.k < Len(fmt.found)
    /\ fmt' = DoRow(fmt)
    /\ UNCHANGED <<source, nlw, labels, last>>

RowEnd ==
    /\ fmt.pc = "row" /\ fmt.k >= Len(fmt.found)
    /\ fmt' = DoRowEnd(fmt)
    /\ UNCHANGED <<source, nlw, labels, last>>

Extras ==
    /\ fmt.pc = "extras"
    /\ fmt' = DoExtras(fmt)
    /\ UNCHANGED <<source, nlw, labels, last>>

ExtraStep ==
    /\ fmt.pc = "extrarow" /\ fmt.ei < Len(fmt.unfinished)
    /\ fmt' = DoExtraStep(fmt)
    /\ UNCHANGED <<source, nlw, labels, last>>

ExtraRowEnd ==
    /\ fmt.pc = "extrarow" /\ fmt.ei >= Len(fmt.unfinished)
    /\ fmt' = DoExtraRowEnd(fmt)
    /\ UNCHANGED <<source, nlw, labels, last>>

Next ==
    \/ Label
    \/ LabelPanics
    \/ Begin
    \/ Group
    \/ GroupEnd
    \/ Row
    \/ RowEnd
    \/ Extras
    \/ ExtraStep
    \/ ExtraRowEnd

Spec == Init /\ [][Next]_vars

NextDeep ==
    \/ LabelDeep
    \/ LabelPanics
    \/ Begin
    \/ Group
    \/ GroupEnd
    \/ Row
    \/ RowEnd
    \/ Extras
    \/ ExtraStep
    \/ ExtraRowEnd

SpecDeep == Init /\ [][NextDeep]_vars

\* ------------------------------------------------------------ properties

Rendering == fmt.pc \in {"group", "row", "extras", "extrarow", "done"}

\* the states in which the labels of the current line are grouped and sorted
OnRows == fmt.pc \in {"row", "extras", "extrarow"}

\* the line being rendered
CurSpan == LineSpans[fmt.line + 1]

Ids(s) == {s[j].l.id : j \in 1..Len(s)}

\* the number of columns the visible characters of message m take
Visible(m) == Cardinality({p \in 1..Len(m) : m[p] # "e"})

\* how often x occurs in sequence s
Count(s, x) == Cardinality({p \in 1..Len(s) : s[p] = x})

\* C6: a call of label fails with the out-of-bounds failure exactly when the
\* span's end exceeds the length of the source, and then the collection is
\* as it was; otherwise the label is appended at the end; so every stored
\* label ends within the source.  (last' is the label the call was given.)
C6_LabelContract ==
    [][fmt.pc = "build" =>
        /\ fmt'.pc = "build" =>
              (last'.end <= Len(source) /\ labels' = Append(labels, last'))
        /\ fmt'.pc = "panic" =>
              (fmt'.why = "bounds" <=> last'.end > Len(source))
        /\ fmt'.why = "bounds" =>
              (last'.end > Len(source) /\ labels' = labels)
        /\ \A j \in 1..Len(labels') : labels'[j].end <= Len(source)]_vars

\* a call of label has failed on a diagnostic that already holds a label
C6_Witness ==
    /\ fmt.why = "bounds"
    /\ Len(labels) >= 1
    /\ last.end = Len(source) + 1

\* each line starts where the lines before it, newlines included, end, and
\* ends where its text without the newline ends
LineShape ==
    \A j \in 1..Len(LineSpans) :
        LET sp == LineSpans[j]
        IN /\ sp.start = (IF j = 1 THEN 0 ELSE LineSpans[j - 1].end + 1)
           /\ sp.start <= sp.end
           /\ \A o \in sp.start..sp.end - 1 : source[o + 1] # "n"
           /\ (sp.end = Len(source) \/ source[sp.end + 1] = "n")

\* every label still pending starts on none of the first n lines, the end
\* of a line counted in
PendingMissesLines(n) ==
    \A p \in 1..Len(fmt.pending) : \A j \in 1..n :
        ~(LineSpans[j].start <= fmt.pending[p].start
          /\ fmt.pending[p].start <= LineSpans[j].end)

\* C7, amended: when the grouping of line L is done, the labels attached to
\* L are exactly those with L.start <= label.start <= L.end (the end counted
\* in), L.start and L.end being as the claim says; a label left pending
\* starts on no line grouped so far.
C7_GroupingInclusive ==
    Rendering =>
        /\ LineShape
        /\ OnRows =>
              Ids(fmt.found) =
                 {id \in 1..Len(labels) :
                     /\ CurSpan.start <= labels[id].start
                     /\ labels[id].start <= CurSpan.end}
        /\ fmt.pc = "group" => PendingMissesLines(fmt.line)
        /\ fmt.pc # "group" => PendingMissesLines(fmt.line + 1)

\* C7 as claimed: the labels attached to L are exactly those with
\* L.start <= label.start < L.end.
C7_GroupingHalfOpen ==
    (Rendering /\ OnRows) =>
        Ids(fmt.found) =
           {id \in 1..Len(labels) :
               /\ CurSpan.start <= labels[id].start
               /\ labels[id].start < CurSpan.end}

\* a line after the first holds a label that starts at the line's end and
\* one that starts before it
C7_Witness ==
    /\ OnRows
    /\ fmt.line >= 1
    /\ \E j \in 1..Len(fmt.found) : fmt.found[j].l.start = CurSpan.end
    /\ \E j \in 1..Len(fmt.found) : fmt.found[j].l.start < CurSpan.end

LegalInput ==
    /\ \A j \in 1..Len(labels) :
          /\ labels[j].start <= labels[j].end /\ labels[j].end <= Len(source)
          /\ IsBoundary(labels[j].start) /\ IsBoundary(labels[j].end)
    /\ \A a, b \in 1..Len(labels) :
          a # b => ~Contains(labels[a], labels[b].start)

\* C1: on legal input render completes and raises no failure.
C1_RenderTotal ==
    LegalInput => ~(fmt.pc = "panic" /\ fmt.at # "build")

\* C2: an extension-row cascade, once started, reaches the empty queue:
\* render never stops with labels left in the queue, every finished
\* extension row has taken at least one label out of it, and no more rows
\* are written than the queue held at the start.
C2_CascadeDrains ==
    /\ fmt.pc \in {"done", "panic"} => fmt.unfinished = << >>
    /\ fmt.pc \in {"extras", "extrarow"} =>
          /\ fmt.rows <= fmt.queue0
          /\ Len(fmt.unfinished) <= fmt.queue0 - fmt.rows

\* the line (counted from 1) a stored label is attached to, 0 if none
LineOf(l) ==
    LET on == {j \in 1..Len(LineSpans) : OnLine(LineSpans[j], l)}
    IN IF on = {} THEN 0 ELSE CHOOSE j \in on : \A r \in on : j <= r

\* some label starts inside the span of a label of an earlier line
CrossLineOverlap ==
    \E a, b \in 1..Len(labels) :
        /\ LineOf(labels[a]) > 0
        /\ LineOf(labels[a]) < LineOf(labels[b])
        /\ Contains(labels[a], labels[b].start)

\* C3: render raises the unsupported-overlap failure exactly when some
\* label starts inside the span of a label attached to an earlier line; two
\* labels of the same line never raise it.
C3_OverlapAcrossLines ==
    /\ (fmt.pc = "panic" /\ fmt.why = "overlap") => CrossLineOverlap
    /\ fmt.pc = "done" => ~CrossLineOverlap

\* the display width of the text a span covers, 1 for an empty span
SpanWidth(l) == IF l.start = l.end THEN 1 ELSE Width(l.start, l.end)

\* C5: every label drawn inline, on the first line or a later one, gets as
\* many carets as the text of its span is wide, and exactly one if the span
\* is empty.
C5_CaretWidth ==
    OnRows =>
        \A j \in 1..Len(fmt.drawn) :
            (~fmt.drawn[j].deferred
             /\ SliceOK(fmt.found[j].l.start, fmt.found[j].l.end)) =>
                Count(fmt.drawn[j].glyphs, "^") = SpanWidth(fmt.found[j].l)

\* the column of the midpoint of the split marker drawn for label id
MidCol(id) ==
    LET j == CHOOSE q \in 1..Len(fmt.drawn) : fmt.drawn[q].id = id
    IN fmt.drawn[j].midcol

\* C8: on an extension row every connector is written in the column of its
\* label's split-marker midpoint, and when a pending label is reached the
\* cursor does not lie past that column, so the row can always place it.
C8_ConnectorColumn ==
    /\ \A j \in 1..Len(fmt.links) : fmt.links[j].col = MidCol(fmt.links[j].id)
    /\ (fmt.pc = "extrarow" /\ fmt.ei < Len(fmt.unfinished)) =>
          fmt.epos <= MidCol(fmt.unfinished[fmt.ei + 1].l.id)
    /\ ~(fmt.pc = "panic" /\ fmt.at = "extrarow")

\* C9: when render succeeds, every stored label was attached to exactly
\* one line and its message was written exactly once.
C9_EveryLabelOnce ==
    fmt.pc = "done" =>
        \A id \in 1..Len(labels) :
            /\ Cardinality({j \in 1..Len(LineSpans) :
                               OnLine(LineSpans[j], labels[id])}) = 1
            /\ Count(fmt.written, id) = 1

\* what a call of render gives back: the text, or a failure
Outcome(f) == [ok |-> f.pc = "done", text |-> IF f.pc = "done" THEN f.out ELSE << >>]

\* C10: render gives the same text, or fails alike, for every order in
\* which the same labels were added.
C10_OrderIndependent ==
    (fmt.pc \in {"done", "panic"} /\ fmt.at # "build") =>
        \A p \in Permutations(1..Len(labels)) :
            Outcome(Render([j \in 1..Len(labels) |-> labels[p[j]]])) = Outcome(fmt)

====
